---- MODULE Spec2Model ----
(***************************************************************************)
(* A model of ethpm-cli's package resolution and installation:             *)
(* ethpm_cli/package.py (Package, resolve_target_uri,                      *)
(* resolve_manifest_uri, process_and_validate_raw_manifest),               *)
(* ethpm_cli/install.py (install_package and its helpers) and              *)
(* ethpm_cli/validation.py (validate_parent_directory).                    *)
(*                                                                         *)
(* The filesystem is a set of directories and a map from file paths to     *)
(* contents.  A path is a sequence of segments; pathlib keeps ".."         *)
(* segments when it joins paths, and the operating system resolves them    *)
(* when the path is used.  Bytes are a body followed by nl newlines, so    *)
(* that rstrip("\n") and the content hash are not the identity.            *)
(***************************************************************************)
EXTENDS Naturals, Sequences, FiniteSets, TLC

\* ------------------------------------------------------------------ bounds
\* number of install commands run in one behaviour
MaxInstalls == 2

\* ------------------------------------------------------------------ paths
Root == <<>>
install_root == <<"root">>
TmpDir == <<"tmp">>
\* mkdtemp(): a fresh directory under the temporary directory for every call
ScratchNames == <<"s1", "s2", "s3", "s4", "s5", "s6">>
mkdtemp(n) == Append(TmpDir, ScratchNames[n])

ETHPM_DIR_NAME == "ethpm_packages"
LOCK_NAME == "ethpm.lock"

\* a manifest key (a source path or a dependency name) as pathlib parses it
Key(abs, segs) == [abs |-> abs, segs |-> segs]

RECURSIVE DropDots(_)
DropDots(segs) ==
  IF segs = <<>> THEN <<>>
  ELSE IF Head(segs) = "." THEN DropDots(Tail(segs))
  ELSE <<Head(segs)>> \o DropDots(Tail(segs))

\* pathlib's base / key : an absolute key replaces the base, "." segments are
\* dropped, ".." segments are kept
Join(base, key) ==
  IF key.abs THEN DropDots(key.segs) ELSE base \o DropDots(key.segs)

\* PurePath.parent and PurePath.parents: purely lexical
LexParent(path) == IF path = <<>> THEN <<>> ELSE SubSeq(path, 1, Len(path) - 1)
Parents(path) == { SubSeq(path, 1, n) : n \in 0 .. (Len(path) - 1) }

\* the location a path names once ".." segments are resolved
RECURSIVE NormFrom(_, _)
NormFrom(cur, rest) ==
  IF rest = <<>> THEN cur
  ELSE NormFrom(IF Head(rest) = ".." THEN LexParent(cur) ELSE Append(cur, Head(rest)),
                Tail(rest))
Normalize(path) == NormFrom(<<>>, path)

IsPrefix(a, b) == Len(a) <= Len(b) /\ SubSeq(b, 1, Len(a)) = a
\* b lies strictly below directory a
Inside(a, b) == IsPrefix(a, b) /\ a # b

\* validation.py: parent_dir not in child_dir.parents -> InstallError
validate_parent_directory(parent_dir, child_dir) == parent_dir \in Parents(child_dir)

\* ------------------------------------------------------------------ contents
\* bytes and text: a body followed by nl newline characters
Bytes(body, nl) == [body |-> body, nl |-> nl]
\* to_text(b).rstrip("\n")
to_text_rstrip(b) == [body |-> b.body, nl |-> 0]

\* content of a file: data (bytes or text) or a serialised lockfile
Data(b) == [kind |-> "data", body |-> b.body, nl |-> b.nl, lock |-> <<>>]
EmptyFile == [kind |-> "data", body |-> "", nl |-> 0, lock |-> <<>>]
LockText(items) == [kind |-> "lock", body |-> "", nl |-> 1, lock |-> items]

\* ------------------------------------------------------------------ filesystem
EmptyFiles == [x \in {} |-> EmptyFile]
EmptyFs == [dirs |-> {Root, TmpDir, install_root}, files |-> EmptyFiles]

\* path resolution by the operating system: every directory walked through
\* must exist; the last component need not
RECURSIVE WalkFrom(_, _, _)
WalkFrom(f, cur, rest) ==
  IF rest = <<>> THEN [err |-> "", at |-> cur]
  ELSE IF cur \in DOMAIN f.files THEN [err |-> "NotADirectoryError", at |-> cur]
  ELSE IF cur \notin f.dirs THEN [err |-> "FileNotFoundError", at |-> cur]
  ELSE WalkFrom(f,
                IF Head(rest) = ".." THEN LexParent(cur) ELSE Append(cur, Head(rest)),
                Tail(rest))
Walk(f, path) == WalkFrom(f, <<>>, path)

ExistsAt(f, w) == w.err = "" /\ (w.at \in f.dirs \/ w.at \in DOMAIN f.files)
DirAt(f, w) == w.err = "" /\ w.at \in f.dirs
FileAt(f, w) == w.err = "" /\ w.at \in DOMAIN f.files
os_path_exists(f, path) == ExistsAt(f, Walk(f, path))
is_dir(f, path) == DirAt(f, Walk(f, path))
is_file(f, path) == FileAt(f, Walk(f, path))

PutFile(f, at, c) ==
  [f EXCEPT !.files = [x \in (DOMAIN f.files) \cup {at} |-> IF x = at THEN c ELSE f.files[x]]]
PutDir(f, at) == [f EXCEPT !.dirs = f.dirs \cup {at}]

\* ------------------------------------------------------------------ staged I/O
\* An I/O state: the filesystem, the log of what was done, the Packages
\* constructed on the way, and the exception raised ("" while none).  Every
\* operation is skipped once err is set.
NoHash == [alg |-> "none", body |-> "", nl |-> 0]
NoUri == [kind |-> "none", hash |-> NoHash, auth |-> "", name |-> ""]
NoBytes == [body |-> "", nl |-> 0]
Ev(op, path, base, uri, bytes, ok) ==
  [op |-> op, path |-> path, base |-> base, uri |-> uri, bytes |-> bytes, ok |-> ok]
PathEv(op, path) == Ev(op, path, <<>>, NoUri, NoBytes, TRUE)

IoState(f, log) == [f |-> f, log |-> log, err |-> "", pkgs |-> {}]
Raise(st, e) == [st EXCEPT !.err = e]
Logged(st, e) == [st EXCEPT !.log = Append(st.log, e)]

\* os.mkdir(path), w the resolution of path
os_mkdir_at(st, w) ==
  IF w.err # "" THEN Raise(st, w.err)
  ELSE IF w.at \in st.f.dirs \/ w.at \in DOMAIN st.f.files THEN Raise(st, "FileExistsError")
  ELSE Logged([st EXCEPT !.f = PutDir(st.f, w.at)], PathEv("mkdir", w.at))
os_mkdir(st, path) == IF st.err # "" THEN st ELSE os_mkdir_at(st, Walk(st.f, path))

\* Path.mkdir(parents=True, exist_ok=...): os.mkdir; on FileNotFoundError the
\* parent is made (parents=True, exist_ok=True) and os.mkdir is tried again; any
\* other OSError is swallowed when exist_ok and the path is a directory
RECURSIVE mkdir_parents(_, _, _)
mkdir_again(up, path, exist_ok, again) ==
  IF again.err # "" /\ again.err # "FileNotFoundError" /\ exist_ok /\ is_dir(up.f, path)
    THEN up ELSE again
mkdir_retry(up, path, exist_ok) ==
  IF up.err # "" THEN up ELSE mkdir_again(up, path, exist_ok, os_mkdir(up, path))
mkdir_first(st, path, exist_ok, r) ==
  IF r.err = "" THEN r
  ELSE IF r.err = "FileNotFoundError" THEN
    IF LexParent(path) = path THEN r
    ELSE mkdir_retry(mkdir_parents(st, LexParent(path), TRUE), path, exist_ok)
  ELSE IF exist_ok /\ is_dir(st.f, path) THEN st
  ELSE r
mkdir_parents(st, path, exist_ok) ==
  IF st.err # "" THEN st ELSE mkdir_first(st, path, exist_ok, os_mkdir(st, path))

\* Path.touch(): os.utime when the path exists, else create an empty file
touch_at(st, w) ==
  IF w.err # "" THEN Raise(st, w.err)
  ELSE IF w.at \in st.f.dirs \/ w.at \in DOMAIN st.f.files
    THEN Logged(st, PathEv("touch", w.at))
  ELSE Logged([st EXCEPT !.f = PutFile(st.f, w.at, EmptyFile)], PathEv("touch", w.at))
touch(st, path) == IF st.err # "" THEN st ELSE touch_at(st, Walk(st.f, path))

\* Path.write_bytes / Path.write_text; op and base say what is written and
\* the directory it is meant to stay in
write_at(st, w, c, op, base) ==
  IF w.err # "" THEN Raise(st, w.err)
  ELSE IF w.at \in st.f.dirs THEN Raise(st, "IsADirectoryError")
  ELSE Logged([st EXCEPT !.f = PutFile(st.f, w.at, c)], Ev(op, w.at, base, NoUri, NoBytes, TRUE))
write_file(st, path, c, op, base) ==
  IF st.err # "" THEN st ELSE write_at(st, Walk(st.f, path), c, op, base)

\* validate_parent_directory as a step: logs the check, raises InstallError on failure
check_result(lg, ok) == IF ok THEN lg ELSE Raise(lg, "InstallError.traversal")
check_logged(st, parent_dir, child, ok) ==
  check_result(Logged(st, Ev("check", Normalize(child), parent_dir, NoUri, NoBytes, ok)), ok)
check_parent(st, parent_dir, child) ==
  IF st.err # "" THEN st
  ELSE check_logged(st, parent_dir, child, validate_parent_directory(parent_dir, child))

\* ------------------------------------------------------------------ URIs and hashes
\* generate_file_hash (the storage hash) and the blob hash that
\* validate_blob_uri_contents recomputes: injective on bytes, and distinct
\* from one another
generate_file_hash(b) == [alg |-> "ipfs", body |-> b.body, nl |-> b.nl]
blob_hash(b) == [alg |-> "git", body |-> b.body, nl |-> b.nl]

IpfsUri(b) == [kind |-> "ipfs", hash |-> generate_file_hash(b), auth |-> "", name |-> ""]
GithubUri(b) == [kind |-> "github", hash |-> blob_hash(b), auth |-> "", name |-> ""]
RegistryUri(auth, name) == [kind |-> "registry", hash |-> NoHash, auth |-> auth, name |-> name]
OtherUri == [kind |-> "other", hash |-> NoHash, auth |-> "", name |-> "http"]

is_ipfs_uri(u) == u.kind = "ipfs"
is_valid_content_addressed_github_uri(u) == u.kind = "github"
is_valid_registry_uri(u) == u.kind = "registry"
\* extract_ipfs_path_from_uri(uri), and the last path segment of a blob URI
extract_ipfs_path_from_uri(u) == u.hash

\* ------------------------------------------------------------------ the manifests of the model
OwnedBytes == Bytes("owned", 1)
WalletBytes == Bytes("wallet", 0)
GrandBytes == Bytes("grand", 0)
EvilAbsBytes == Bytes("evilabs", 0)
EvilRelBytes == Bytes("evilrel", 0)
EvilDepBytes == Bytes("evildep", 0)
JunkBytes == Bytes("junk", 0)
SubstBytes == Bytes("subst", 0)
DupBytes == Bytes("dup", 0)
Owned2Bytes == Bytes("owned2", 0)
MultiBytes == Bytes("multi", 0)
TreeBytes == Bytes("tree", 0)
SolBytes == Bytes("Owned.sol", 1)
EvilSolBytes == Bytes("Evil.sol", 0)

\* a value of `sources`: the string itself, and the URI it denotes (if any)
Inline(body, nl) == [uri |-> NoUri, text |-> Bytes(body, nl)]
UriValue(u) == [uri |-> u, text |-> Bytes("uri", 0)]
Source(key, value) == [key |-> key, value |-> value]
Dep(name, uri) == [name |-> name, uri |-> uri]

Manifest(name, sources, has_deps, deps) ==
  [valid |-> TRUE, package_name |-> name, version |-> "1.0.0",
   sources |-> sources, has_deps |-> has_deps, deps |-> deps]
InvalidManifest ==
  [valid |-> FALSE, package_name |-> "", version |-> "",
   sources |-> <<>>, has_deps |-> FALSE, deps |-> <<>>]

\* json.loads of a manifest body; the validators reject every other body
ManifestOf(body) ==
  CASE body = "owned" ->
         Manifest("owned",
                  <<Source(Key(FALSE, <<".", "contracts", "Owned.sol">>), UriValue(IpfsUri(SolBytes)))>>,
                  FALSE, <<>>)
    [] body = "wallet" ->
         Manifest("wallet",
                  <<Source(Key(FALSE, <<"Wallet.sol">>), Inline("wallet-src", 1))>>,
                  TRUE, <<Dep(Key(FALSE, <<"dep">>), IpfsUri(OwnedBytes))>>)
    [] body = "grand" ->
         Manifest("grand",
                  <<Source(Key(FALSE, <<"Grand.sol">>), Inline("grand-src", 0))>>,
                  TRUE, <<Dep(Key(FALSE, <<"wallet-dep">>), IpfsUri(WalletBytes))>>)
    [] body = "evilabs" ->
         Manifest("evilabs",
                  <<Source(Key(TRUE, <<"root", "evil.sol">>), Inline("evil-src", 0))>>,
                  FALSE, <<>>)
    [] body = "evilrel" ->
         Manifest("evilrel",
                  <<Source(Key(FALSE, <<"ok.sol">>), Inline("ok-src", 0)),
                    Source(Key(FALSE, <<"..", "..", "..", "root", "evil.sol">>), Inline("evil-src", 0))>>,
                  TRUE, <<Dep(Key(FALSE, <<"dep">>), IpfsUri(OwnedBytes))>>)
    [] body = "evildep" ->
         Manifest("evildep",
                  <<Source(Key(FALSE, <<"ok.sol">>), Inline("ok-src", 0))>>,
                  TRUE, <<Dep(Key(TRUE, <<"root", "evil-dir">>), IpfsUri(OwnedBytes))>>)
    [] body = "subst" ->
         Manifest("subst",
                  <<Source(Key(FALSE, <<"s.sol">>), Inline("subst-src", 0))>>,
                  FALSE, <<>>)
    [] body = "dup" ->
         Manifest("dup",
                  <<Source(Key(FALSE, <<".", "A.sol">>), Inline("first-src", 0)),
                    Source(Key(FALSE, <<"A.sol">>), Inline("second-src", 0))>>,
                  FALSE, <<>>)
    [] body = "owned2" ->
         Manifest("owned",
                  <<Source(Key(FALSE, <<"Owned2.sol">>), Inline("owned2-src", 0))>>,
                  FALSE, <<>>)
    [] body = "multi" ->
         Manifest("multi",
                  <<Source(Key(FALSE, <<"Multi.sol">>), Inline("multi-src", 0))>>,
                  TRUE, <<Dep(Key(FALSE, <<"owned-v1">>), IpfsUri(OwnedBytes)),
                          Dep(Key(FALSE, <<"owned-v2">>), IpfsUri(Owned2Bytes))>>)
    [] body = "tree" ->
         Manifest("tree",
                  <<Source(Key(FALSE, <<"Tree.sol">>), Inline("tree-src", 0))>>,
                  TRUE, <<Dep(Key(FALSE, <<"w">>), IpfsUri(WalletBytes)),
                          Dep(Key(FALSE, <<"o">>), IpfsUri(OwnedBytes))>>)
    [] OTHER -> InvalidManifest

\* RegistryURIBackend().fetch_uri_contents(uri): the manifest URI on record
RegistryLookup(u) ==
  CASE u.name = "owned" -> IpfsUri(OwnedBytes)
    [] u.name = "subst" -> GithubUri(SubstBytes)
    [] OTHER -> OtherUri
RegistryAddress == "0xReg"
OtherRegistry == "0xOther"

\* ------------------------------------------------------------------ the transports
\* What the transports return during one command: honest content (the bytes
\* whose hash the URI embeds), except for at most one URI, for which the fetch
\* fails or returns other bytes.
Honest == [uri |-> NoUri, resp |-> "honest"]
Tampered(u, resp) == [uri |-> u, resp |-> resp]

HonestBytes(u) == Bytes(u.hash.body, u.hash.nl)
OtherBytes(u) == IF ManifestOf(u.hash.body).valid THEN SubstBytes ELSE EvilSolBytes

\* fetch_uri_contents(uri): [ok, bytes]; ok = FALSE when the transport raises
Fetched(ok, bytes) == [ok |-> ok, bytes |-> bytes, called |-> TRUE]
NotFetched == [ok |-> FALSE, bytes |-> NoBytes, called |-> FALSE]
fetch_uri_contents(net, u) ==
  IF net.uri # u THEN Fetched(TRUE, HonestBytes(u))
  ELSE CASE net.resp = "fail" -> Fetched(FALSE, NoBytes)
         [] net.resp = "newline" -> Fetched(TRUE, Bytes(u.hash.body, u.hash.nl + 1))
         [] OTHER -> Fetched(TRUE, OtherBytes(u))

\* ------------------------------------------------------------------ package.py
resolve_target_uri_no_address(u) ==
  IF is_valid_registry_uri(u)
    THEN [manifest_uri |-> RegistryLookup(u), registry_address |-> "None"]
    ELSE [manifest_uri |-> u, registry_address |-> "None"]
resolve_target_uri(u) ==
  IF is_valid_registry_uri(u)
    THEN [manifest_uri |-> RegistryLookup(u), registry_address |-> u.auth]
    ELSE [manifest_uri |-> u, registry_address |-> "None"]

\* package.py line 74: resolved_content_hash != manifest_content_hash
content_hash_mismatch_never(resolved, expected) == FALSE
content_hash_mismatch(resolved, expected) == resolved # expected

\* resolve_manifest_uri: [err, raw_manifest, resolved_content_hash, fetched],
\* r what the transport returned
Resolved(err, raw, hash, fetched) ==
  [err |-> err, raw_manifest |-> raw, resolved_content_hash |-> hash, fetched |-> fetched]
resolve_fetched_any(u, r) ==
  IF is_valid_content_addressed_github_uri(u) THEN
    IF ~r.ok THEN Resolved("TransportError", NoBytes, NoHash, r)
    ELSE IF blob_hash(r.bytes) # u.hash THEN Resolved("ValidationError", NoBytes, NoHash, r)
    ELSE Resolved("", r.bytes, u.hash, r)
  ELSE IF ~r.ok THEN Resolved("TransportError", NoBytes, NoHash, r)
  ELSE IF content_hash_mismatch(generate_file_hash(r.bytes), extract_ipfs_path_from_uri(u))
    THEN Resolved("UriNotSupportedError.mismatch", NoBytes, NoHash, r)
  ELSE Resolved("", r.bytes, generate_file_hash(r.bytes), r)
resolve_fetched(u, r) ==
  IF is_valid_content_addressed_github_uri(u) THEN
    IF ~r.ok THEN Resolved("TransportError", NoBytes, NoHash, r)
    ELSE IF blob_hash(r.bytes) # u.hash THEN Resolved("ValidationError", NoBytes, NoHash, r)
    ELSE Resolved("", r.bytes, u.hash, r)
  ELSE IF is_ipfs_uri(u) THEN
    IF ~r.ok THEN Resolved("TransportError", NoBytes, NoHash, r)
    ELSE IF content_hash_mismatch(generate_file_hash(r.bytes), extract_ipfs_path_from_uri(u))
      THEN Resolved("UriNotSupportedError.mismatch", NoBytes, NoHash, r)
    ELSE Resolved("", r.bytes, generate_file_hash(r.bytes), r)
  ELSE Resolved("UriNotSupportedError.unsupported", NoBytes, NoHash, NotFetched)
resolve_manifest_uri(u, net) == resolve_fetched(u, fetch_uri_contents(net, u))

process_and_validate_raw_manifest(raw) == ManifestOf(to_text_rstrip(raw).body)

\* package.py line 43, `alias if alias else ...`: None and "" are both falsy
NoAlias == "<None>"
alias_given_not_none(alias) == alias # NoAlias
alias_given(alias) == alias \notin {NoAlias, ""}

\* Package.__init__(target_uri, alias, ipfs_backend); err # "" when it raises
PackageOf(target_uri, alias, rt, rm, m) ==
  [err |-> IF rm.err # "" THEN rm.err ELSE IF ~m.valid THEN "ValidationError" ELSE "",
   manifest_uri |-> rt.manifest_uri,
   registry_address |-> rt.registry_address,
   raw_manifest |-> rm.raw_manifest,
   resolved_content_hash |-> rm.resolved_content_hash,
   manifest |-> m,
   alias |-> IF alias_given(alias) THEN alias ELSE m.package_name,
   target_uri |-> target_uri,
   fetched |-> rm.fetched]
PackageFetched(target_uri, alias, rt, rm) ==
  IF rm.err # "" THEN PackageOf(target_uri, alias, rt, rm, InvalidManifest)
  ELSE PackageOf(target_uri, alias, rt, rm, process_and_validate_raw_manifest(rm.raw_manifest))
PackageResolved(target_uri, alias, net, rt) ==
  PackageFetched(target_uri, alias, rt, resolve_manifest_uri(rt.manifest_uri, net))
Package(target_uri, alias, net) ==
  PackageResolved(target_uri, alias, net, resolve_target_uri(target_uri))

NoPackage ==
  PackageOf(NoUri, "", [manifest_uri |-> NoUri, registry_address |-> "None"],
            Resolved("none", NoBytes, NoHash, NotFetched), InvalidManifest)

generate_ethpm_lock(pkg) ==
  [resolved_uri |-> pkg.manifest_uri,
   resolved_content_hash |-> pkg.resolved_content_hash,
   target_uri |-> pkg.target_uri,
   registry_address |-> pkg.registry_address,
   alias |-> pkg.alias,
   resolved_version |-> pkg.manifest.version,
   resolved_package_name |-> pkg.manifest.package_name]

\* the manifest fetch of a Package construction, as a log entry
FetchEv(pkg) ==
  Ev("fetch_manifest", <<>>, <<>>, pkg.manifest_uri, pkg.fetched.bytes, pkg.fetched.ok)
LogFetch(st, pkg) == IF pkg.fetched.called THEN Logged(st, FetchEv(pkg)) ELSE st
\* what a successful construction resolved: the manifest URI, the raw manifest
\* and the content hash of the Package
Construction(pkg) ==
  [manifest_uri |-> pkg.manifest_uri, raw_manifest |-> pkg.raw_manifest,
   resolved_content_hash |-> pkg.resolved_content_hash]
Constructions(pkg) == IF pkg.err = "" THEN {Construction(pkg)} ELSE {}
LogPackage(st, pkg) == [LogFetch(st, pkg) EXCEPT !.pkgs = st.pkgs \cup Constructions(pkg)]

\* ------------------------------------------------------------------ lockfile text
\* every alias and package name, in the order sort_keys puts them
NameOrder == <<"a", "b", "dup", "evilabs", "evildep", "evilrel", "grand", "multi", "owned", "subst", "tree", "wallet">>
EmptyLock == [k \in {} |-> NoUri]

\* json.dumps(lock, sort_keys=True, indent=4): the entries in key order
dumps_keys(lock, keys) == [i \in 1 .. Len(keys) |-> <<keys[i], lock[keys[i]]>>]
json_dumps(lock) == dumps_keys(lock, SelectSeq(NameOrder, LAMBDA k : k \in DOMAIN lock))
\* json.loads(text): the mapping the entries denote
json_loads(items) ==
  [k \in { items[i][1] : i \in DOMAIN items } |->
     items[CHOOSE i \in DOMAIN items : items[i][1] = k][2]]

\* eth_utils.toolz.assoc(old_lock, alias, data)
assoc_replace(lock, k, v) == [x \in {k} |-> v]
assoc(lock, k, v) == [x \in (DOMAIN lock) \cup {k} |-> IF x = k THEN v ELSE lock[x]]

\* the mapping a lockfile holds (empty when the file is missing or not a lockfile)
LockAt(f, path) ==
  IF path \in DOMAIN f.files /\ f.files[path].kind = "lock"
    THEN json_loads(f.files[path].lock) ELSE EmptyLock

\* update_ethpm_lock(pkg, ethpm_lock), run without interruption
new_lock_text(old, pkg) ==
  LockText(json_dumps(assoc(old, pkg.alias, generate_ethpm_lock(pkg))))
update_existing(st, pkg, ethpm_lock, c) ==
  IF c.kind # "lock" THEN Raise(st, "JSONDecodeError")
  ELSE write_file(st, ethpm_lock, new_lock_text(json_loads(c.lock), pkg),
                  "write_lock", LexParent(ethpm_lock))
update_ethpm_lock(st, pkg, ethpm_lock) ==
  IF st.err # "" THEN st
  ELSE IF is_file(st.f, ethpm_lock)
    THEN update_existing(st, pkg, ethpm_lock, st.f.files[Normalize(ethpm_lock)])
  ELSE write_file(touch(st, ethpm_lock), ethpm_lock, new_lock_text(EmptyLock, pkg),
                  "write_lock", LexParent(ethpm_lock))

\* ------------------------------------------------------------------ install.py: staging
\* resolve_sources: every source is resolved (fetched, when its value is a
\* storage URI) before anything is written; [st, out] with out the resolved
\* (key, contents) pairs in manifest order
RECURSIVE resolve_sources_from(_, _, _, _)
Resolution(key, contents) == [key |-> key, contents |-> contents]
resolve_fetched_source(st, sources, net, out, s, r) ==
  IF ~r.ok
    THEN [st |-> Raise(Logged(st, Ev("fetch_source", <<>>, <<>>, s.value.uri, r.bytes, r.ok)),
                       "TransportError"),
          out |-> out]
    ELSE resolve_sources_from(Logged(st, Ev("fetch_source", <<>>, <<>>, s.value.uri, r.bytes, r.ok)),
                              Tail(sources), net,
                              Append(out, Resolution(s.key, to_text_rstrip(r.bytes))))
resolve_source(st, sources, net, out, s) ==
  IF is_ipfs_uri(s.value.uri)
    THEN resolve_fetched_source(st, sources, net, out, s, fetch_uri_contents(net, s.value.uri))
    ELSE resolve_sources_from(st, Tail(sources), net, Append(out, Resolution(s.key, s.value.text)))
resolve_sources_from(st, sources, net, out) ==
  IF st.err # "" \/ sources = <<>> THEN [st |-> st, out |-> out]
  ELSE resolve_source(st, sources, net, out, Head(sources))
resolve_sources(st, pkg, net) == resolve_sources_from(st, pkg.manifest.sources, net, <<>>)

\* the body of the loop of write_sources_to_disk, in the order of the code:
\* mkdir(parents=True), touch, validate_parent_directory, write_text
make_target_dir(st, target_dir) ==
  IF st.err = "" /\ ~is_dir(st.f, target_dir) THEN mkdir_parents(st, target_dir, FALSE) ELSE st
write_source_at(st, src, target_file, contents) ==
  write_file(check_parent(touch(make_target_dir(st, LexParent(target_file)), target_file),
                          src, target_file),
             target_file, Data(contents), "write_source", src)
write_source(st, pkg_dir, key, contents) ==
  write_source_at(st, Append(pkg_dir, "src"), Join(Append(pkg_dir, "src"), key), contents)

RECURSIVE write_sources_from(_, _, _)
write_sources_from(st, pkg_dir, resolved) ==
  IF st.err # "" \/ resolved = <<>> THEN st
  ELSE write_sources_from(write_source(st, pkg_dir, Head(resolved).key, Head(resolved).contents),
                          pkg_dir, Tail(resolved))

write_resolved_sources(r, pkg_dir) == write_sources_from(r.st, pkg_dir, r.out)
write_sources_to_disk(st, pkg, pkg_dir, net) ==
  write_resolved_sources(resolve_sources(st, pkg, net), pkg_dir)

\* write_pkg_installation_files up to, and without, its closing lockfile update,
\* and write_build_deps_to_disk, which calls it again for every dependency
RECURSIVE write_pkg_files(_, _, _, _)
RECURSIVE write_build_deps_from(_, _, _, _, _)

\* write_pkg_installation_files(pkg, tmp_pkg_dir, ipfs_backend)
write_pkg_installation_files(st, pkg, tmp_pkg_dir, net) ==
  update_ethpm_lock(write_pkg_files(st, pkg, tmp_pkg_dir, net), pkg,
                    Append(LexParent(tmp_pkg_dir), LOCK_NAME))

\* install.py line 103: the alias passed to Package for the dependency `name`
dep_alias(name) == ""

\* lines 104-107 for one dependency: mkdir, validate_parent_directory, recursion
write_dep_dir(st, dep_pkg, pkg_dir, tmp_dep_dir, net) ==
  write_pkg_installation_files(check_parent(os_mkdir(st, tmp_dep_dir), pkg_dir, tmp_dep_dir),
                               dep_pkg, tmp_dep_dir, net)
write_dep(st, pkg_dir, child_ethpm_dir, deps, net, dep_pkg) ==
  IF dep_pkg.err # "" THEN Raise(LogPackage(st, dep_pkg), dep_pkg.err)
  ELSE write_build_deps_from(
         write_dep_dir(LogPackage(st, dep_pkg), dep_pkg, pkg_dir,
                       Join(child_ethpm_dir, Head(deps).name), net),
         pkg_dir, child_ethpm_dir, Tail(deps), net)
write_build_deps_first(st, pkg_dir, child_ethpm_dir, deps, net) ==
  IF st.err # "" \/ deps = <<>> THEN st
  ELSE write_dep(st, pkg_dir, child_ethpm_dir, <<Head(deps)>>, net,
                 Package(Head(deps).uri, dep_alias(Head(deps).name), net))
write_build_deps_from(st, pkg_dir, child_ethpm_dir, deps, net) ==
  IF st.err # "" \/ deps = <<>> THEN st
  ELSE write_dep(st, pkg_dir, child_ethpm_dir, deps, net,
                 Package(Head(deps).uri, dep_alias(Head(deps).name), net))

write_build_deps_to_disk(st, pkg, pkg_dir, net) ==
  IF st.err # "" \/ ~pkg.manifest.has_deps THEN st
  ELSE write_build_deps_from(os_mkdir(st, Append(pkg_dir, ETHPM_DIR_NAME)), pkg_dir,
                             Append(pkg_dir, ETHPM_DIR_NAME), pkg.manifest.deps, net)

write_manifest(st, pkg, mf, tmp_pkg_dir) ==
  write_file(touch(st, mf), mf, Data(pkg.raw_manifest), "write_manifest", tmp_pkg_dir)
write_pkg_files(st, pkg, tmp_pkg_dir, net) ==
  write_build_deps_to_disk(
    write_sources_to_disk(write_manifest(st, pkg, Append(tmp_pkg_dir, "manifest.json"), tmp_pkg_dir),
                          pkg, tmp_pkg_dir, net),
    pkg, tmp_pkg_dir, net)

\* shutil.copytree(src, dst): dst must not exist; everything below src is copied
CopiedFs(f, src, dst, subdirs, subfiles) ==
  [dirs |-> f.dirs \cup { dst \o SubSeq(x, Len(src) + 1, Len(x)) : x \in subdirs },
   files |-> [y \in (DOMAIN f.files) \cup { dst \o SubSeq(x, Len(src) + 1, Len(x)) : x \in subfiles } |->
                IF y \in DOMAIN f.files THEN f.files[y]
                ELSE f.files[src \o SubSeq(y, Len(dst) + 1, Len(y))]]]
copytree(st, src, dst) ==
  IF st.err # "" THEN st
  ELSE IF os_path_exists(st.f, dst) THEN Raise(st, "FileExistsError")
  ELSE Logged([st EXCEPT !.f = CopiedFs(st.f, src, dst,
                                        { x \in st.f.dirs : IsPrefix(src, x) },
                                        { x \in DOMAIN st.f.files : IsPrefix(src, x) })],
              PathEv("copytree", dst))

\* ------------------------------------------------------------------ the commands
\* the URIs a command may fetch when it installs the manifest at u
RECURSIVE Reach(_)
ReachOf(u, m) ==
  {u} \cup { v \in { m.sources[i].value.uri : i \in DOMAIN m.sources } : is_ipfs_uri(v) }
      \cup UNION { Reach(d) : d \in { m.deps[i].uri : i \in DOMAIN m.deps } }
Reach(u) == ReachOf(u, ManifestOf(to_text_rstrip(HonestBytes(u)).body))

Targets ==
  { IpfsUri(OwnedBytes), IpfsUri(WalletBytes), IpfsUri(GrandBytes), IpfsUri(EvilAbsBytes),
    IpfsUri(EvilRelBytes), IpfsUri(EvilDepBytes), IpfsUri(JunkBytes), IpfsUri(DupBytes),
    GithubUri(SubstBytes), RegistryUri(RegistryAddress, "owned"), OtherUri }
Aliases == {"", "a"}
Responses == {"fail", "newline", "other"}
Scenarios(target, responses) ==
  {Honest} \cup
  { Tampered(u, r) : u \in Reach(resolve_target_uri(target).manifest_uri), r \in responses }

\* the commands that exercise Package: direct and registry targets and
\* packages with build dependencies, with no alias (None), the empty alias,
\* and aliases of the caller
PkgTargets ==
  { IpfsUri(OwnedBytes), GithubUri(SubstBytes), OtherUri, IpfsUri(MultiBytes),
    RegistryUri(RegistryAddress, "owned"), RegistryUri(OtherRegistry, "subst"),
    RegistryUri(RegistryAddress, "legacy") }
PkgAliases == {NoAlias, "", "a"}

\* the commands that exercise the recursion over build dependencies
LiveTargets == { IpfsUri(OwnedBytes), IpfsUri(WalletBytes), IpfsUri(TreeBytes) }

\* two installs that race: valid packages, honest transports
RaceTargets == { IpfsUri(OwnedBytes), IpfsUri(WalletBytes) }

Procs == {1, 2}

VARIABLES
  fs,         \* the filesystem
  pc,         \* pc[p]: where command p stands
  phase,      \* phase[p]: the part of the command p is in, or ended in
  pkg,        \* pkg[p]: the Package of command p
  net,        \* net[p]: what the transports return during command p
  scratch,    \* scratch[p]: tmp_pkg_dir
  lock_path,  \* lock_path[p]: the ethpm_lock argument of update_ethpm_lock
  old_lock,   \* old_lock[p]: the local variable of update_ethpm_lock
  log,        \* log[p]: the fetches, checks and filesystem operations of command p
  result,     \* result[p]: "" while running, "ok", or the exception raised
  pre,        \* pre[p]: the filesystem when command p started
  args,       \* args[p]: the target URI and the alias command p was given
  resolutions, \* what the Package constructions so far resolved (history)
  ncalls,     \* commands started so far
  ntemp       \* directories mkdtemp has made so far

vars == <<fs, pc, phase, pkg, net, scratch, lock_path, old_lock, log, result, pre, args, resolutions, ncalls, ntemp>>

Init ==
  /\ fs = EmptyFs
  /\ pc = [p \in Procs |-> "idle"]
  /\ phase = [p \in Procs |-> "none"]
  /\ pkg = [p \in Procs |-> NoPackage]
  /\ net = [p \in Procs |-> Honest]
  /\ scratch = [p \in Procs |-> <<>>]
  /\ lock_path = [p \in Procs |-> <<>>]
  /\ old_lock = [p \in Procs |-> EmptyLock]
  /\ log = [p \in Procs |-> <<>>]
  /\ result = [p \in Procs |-> ""]
  /\ pre = [p \in Procs |-> EmptyFs]
  /\ args = [p \in Procs |-> [target_uri |-> NoUri, alias |-> NoAlias]]
  /\ resolutions = {}
  /\ ncalls = 0
  /\ ntemp = 0

\* the command ends: it returns ("ok") or raises
Finish(p, r) ==
  /\ pc' = [pc EXCEPT ![p] = "done"]
  /\ result' = [result EXCEPT ![p] = r]
Goto(p, l) ==
  /\ pc' = [pc EXCEPT ![p] = l]
  /\ UNCHANGED result
\* the filesystem and the log after a piece of I/O
Done(p, st) ==
  /\ fs' = st.f
  /\ log' = [log EXCEPT ![p] = st.log]

\* the CLI builds the Package: Package(args.uri, args.alias, config.ipfs_backend)
Constructed(p, sc, k) ==
  /\ pkg' = [pkg EXCEPT ![p] = k]
  /\ net' = [net EXCEPT ![p] = sc]
  /\ log' = [log EXCEPT ![p] = IF k.fetched.called THEN <<FetchEv(k)>> ELSE <<>>]
  /\ resolutions' = resolutions \cup Constructions(k)
  /\ IF k.err # "" THEN Finish(p, k.err)
     ELSE /\ pc' = [pc EXCEPT ![p] = "check"]
          /\ result' = [result EXCEPT ![p] = ""]
Construct(p, targets, aliases, responses) ==
  /\ pc[p] \in {"idle", "done"}
  /\ ncalls < MaxInstalls
  /\ \E target \in targets, alias \in aliases :
       /\ \E sc \in Scenarios(target, responses) : Constructed(p, sc, Package(target, alias, sc))
       /\ args' = [args EXCEPT ![p] = [target_uri |-> target, alias |-> alias]]
  /\ phase' = [phase EXCEPT ![p] = "construct"]
  /\ pre' = [pre EXCEPT ![p] = fs]
  /\ ncalls' = ncalls + 1
  /\ UNCHANGED <<fs, scratch, lock_path, old_lock, ntemp>>

\* install.py line 39: os.path.exists(config.ethpm_dir / pkg.alias)
install_conflict_isfile(f, dest) == is_file(f, dest)
install_conflict_never(f, dest) == FALSE
install_conflict(f, dest) == os_path_exists(f, dest)

\* install_package, lines 39-47: the conflict check, then mkdtemp()
InstallCheck(p) ==
  /\ pc[p] = "check"
  /\ phase' = [phase EXCEPT ![p] = "check"]
  /\ IF install_conflict(fs, Append(install_root, pkg[p].alias))
       THEN /\ Finish(p, "InstallError.conflict")
            /\ UNCHANGED <<fs, scratch, ntemp>>
       ELSE /\ scratch' = [scratch EXCEPT ![p] = mkdtemp(ntemp + 1)]
            /\ fs' = PutDir(fs, mkdtemp(ntemp + 1))
            /\ ntemp' = ntemp + 1
            /\ Goto(p, "stage")
  /\ UNCHANGED <<pkg, net, lock_path, old_lock, log, pre, args, resolutions, ncalls>>

\* write_pkg_installation_files, lines 60-64: manifest.json, the sources and
\* the build dependencies (with their own lockfiles) go to the scratch directory
Staged(p, st) ==
  /\ Done(p, st)
  /\ resolutions' = resolutions \cup st.pkgs
  /\ IF st.err # ""
       THEN /\ Finish(p, st.err)
            /\ UNCHANGED lock_path
       ELSE /\ Goto(p, "lock_is_file")
            /\ lock_path' = [lock_path EXCEPT ![p] = Append(LexParent(scratch[p]), LOCK_NAME)]
Stage(p) ==
  /\ pc[p] = "stage"
  /\ Staged(p, write_pkg_files(IoState(fs, log[p]), pkg[p], scratch[p], net[p]))
  /\ phase' = [phase EXCEPT ![p] = "stage"]
  /\ UNCHANGED <<pkg, net, scratch, old_lock, pre, args, ncalls, ntemp>>

\* update_ethpm_lock line 111: ethpm_lock.is_file()
LockIsFile(p) ==
  /\ pc[p] = "lock_is_file"
  /\ pc' = [pc EXCEPT ![p] = IF is_file(fs, lock_path[p]) THEN "lock_read" ELSE "lock_touch"]
  /\ phase' = [phase EXCEPT ![p] = IF phase[p] = "stage" THEN "stage_lock" ELSE "root_lock"]
  /\ UNCHANGED <<fs, pkg, net, scratch, lock_path, old_lock, log, result, pre, args, resolutions, ncalls, ntemp>>

\* line 112: old_lock = json.loads(ethpm_lock.read_text())
LockRead(p) ==
  /\ pc[p] = "lock_read"
  /\ IF fs.files[lock_path[p]].kind # "lock"
       THEN /\ Finish(p, "JSONDecodeError")
            /\ UNCHANGED old_lock
       ELSE /\ old_lock' = [old_lock EXCEPT ![p] = json_loads(fs.files[lock_path[p]].lock)]
            /\ Goto(p, "lock_write")
  /\ UNCHANGED <<fs, phase, pkg, net, scratch, lock_path, log, pre, args, resolutions, ncalls, ntemp>>

\* lines 114-115: old_lock = {}; ethpm_lock.touch()
Touched(p, st) ==
  /\ Done(p, st)
  /\ IF st.err # "" THEN Finish(p, st.err) ELSE Goto(p, "lock_write")
LockTouch(p) ==
  /\ pc[p] = "lock_touch"
  /\ Touched(p, touch(IoState(fs, log[p]), lock_path[p]))
  /\ old_lock' = [old_lock EXCEPT ![p] = EmptyLock]
  /\ UNCHANGED <<phase, pkg, net, scratch, lock_path, pre, args, resolutions, ncalls, ntemp>>

\* lines 116-118: new_lock = assoc(old_lock, pkg.alias, new_pkg_data); write_text
Written(p, st) ==
  /\ Done(p, st)
  /\ IF st.err # "" THEN Finish(p, st.err)
     ELSE IF phase[p] = "stage_lock" THEN Goto(p, "copy")
     ELSE Finish(p, "ok")
LockWrite(p) ==
  /\ pc[p] = "lock_write"
  /\ Written(p, write_file(IoState(fs, log[p]), lock_path[p], new_lock_text(old_lock[p], pkg[p]),
                           "write_lock", LexParent(lock_path[p])))
  /\ UNCHANGED <<phase, pkg, net, scratch, lock_path, old_lock, pre, args, resolutions, ncalls, ntemp>>

\* install_package lines 50-54: validate_parent_directory, shutil.copytree, and
\* the call of update_ethpm_lock on install_root/ethpm.lock
Copied(p, st) ==
  /\ Done(p, st)
  /\ IF st.err # ""
       THEN /\ Finish(p, st.err)
            /\ UNCHANGED lock_path
       ELSE /\ Goto(p, "lock_is_file")
            /\ lock_path' = [lock_path EXCEPT ![p] = Append(install_root, LOCK_NAME)]
CopyTree(p) ==
  /\ pc[p] = "copy"
  /\ Copied(p, copytree(check_parent(IoState(fs, log[p]), install_root,
                                     Append(install_root, pkg[p].alias)),
                        scratch[p], Append(install_root, pkg[p].alias)))
  /\ phase' = [phase EXCEPT ![p] = "copy"]
  /\ UNCHANGED <<pkg, net, scratch, old_lock, pre, args, resolutions, ncalls, ntemp>>

\* ------------------------------------------------------------------ I/O faults
\* shutil.copytree raises part-way (disk full, permissions): the destination
\* directory and manifest.json are there, the rest is not
CopiedPartly(p, st) ==
  /\ Done(p, st)
  /\ Finish(p, IF st.err # "" THEN st.err ELSE "OSError")
CopyTreeFault(p) ==
  /\ pc[p] = "copy"
  /\ ~os_path_exists(fs, Append(install_root, pkg[p].alias))
  /\ CopiedPartly(p, Logged([IoState(fs, log[p]) EXCEPT !.f =
                               CopiedFs(fs, scratch[p], Append(install_root, pkg[p].alias),
                                        {scratch[p]}, {Append(scratch[p], "manifest.json")})],
                            PathEv("copytree", Append(install_root, pkg[p].alias))))
  /\ phase' = [phase EXCEPT ![p] = "copy"]
  /\ UNCHANGED <<pkg, net, scratch, lock_path, old_lock, pre, args, resolutions, ncalls, ntemp>>

\* write_text raises after open(path, "w") truncated the file
LockWriteFault(p) ==
  /\ pc[p] = "lock_write"
  /\ fs' = PutFile(fs, lock_path[p], EmptyFile)
  /\ Finish(p, "OSError")
  /\ UNCHANGED <<phase, pkg, net, scratch, lock_path, old_lock, log, pre, args, resolutions, ncalls, ntemp>>

\* ------------------------------------------------------------------ specifications
\* one command at a time, as the CLI is run by hand
Next ==
  \/ Construct(1, Targets, Aliases, Responses)
  \/ InstallCheck(1)
  \/ Stage(1)
  \/ LockIsFile(1)
  \/ LockRead(1)
  \/ LockTouch(1)
  \/ LockWrite(1)
  \/ CopyTree(1)

Spec == Init /\ [][Next]_vars

\* one command at a time, where copytree and write_text may raise
NextFault ==
  \/ Construct(1, Targets, Aliases, {})
  \/ InstallCheck(1)
  \/ Stage(1)
  \/ LockIsFile(1)
  \/ LockRead(1)
  \/ LockTouch(1)
  \/ LockWrite(1)
  \/ CopyTree(1)
  \/ CopyTreeFault(1)
  \/ LockWriteFault(1)

SpecFault == Init /\ [][NextFault]_vars

\* one command at a time, over the targets and aliases that exercise Package
NextPkg ==
  \/ Construct(1, PkgTargets, PkgAliases, Responses)
  \/ InstallCheck(1)
  \/ Stage(1)
  \/ LockIsFile(1)
  \/ LockRead(1)
  \/ LockTouch(1)
  \/ LockWrite(1)
  \/ CopyTree(1)

SpecPkg == Init /\ [][NextPkg]_vars

\* one command at a time; a command that has started keeps running: the CLI
\* is single-threaded and synchronous and every fetch returns or raises, so
\* the command's position moves on
Labels == {"check", "stage", "lock_is_file", "lock_read", "lock_touch", "lock_write", "copy", "done"}
Advance(p) ==
  /\ pc[p] \notin {"idle", "done"}
  /\ \E l \in Labels \ {pc[p]} : pc' = [pc EXCEPT ![p] = l]
NextLive ==
  \/ Construct(1, LiveTargets, Aliases, {"fail"})
  \/ InstallCheck(1)
  \/ Stage(1)
  \/ LockIsFile(1)
  \/ LockRead(1)
  \/ LockTouch(1)
  \/ LockWrite(1)
  \/ CopyTree(1)

SpecLive == Init /\ [][NextLive]_vars /\ WF_pc(Advance(1))

\* two commands whose steps interleave
NextConc ==
  \E p \in Procs :
    \/ Construct(p, RaceTargets, Aliases, {})
    \/ InstallCheck(p)
    \/ Stage(p)
    \/ LockIsFile(p)
    \/ LockRead(p)
    \/ LockTouch(p)
    \/ LockWrite(p)
    \/ CopyTree(p)

SpecConc == Init /\ [][NextConc]_vars

\* ------------------------------------------------------------------ what the claims speak of
AllNames == { NameOrder[i] : i \in DOMAIN NameOrder }
RootLock == Append(install_root, LOCK_NAME)
Dest(p) == Append(install_root, pkg[p].alias)

\* the part of a filesystem at or below dir, relative to dir
SubTree(f, dir) ==
  [dirs |-> { SubSeq(x, Len(dir) + 1, Len(x)) : x \in { y \in f.dirs : IsPrefix(dir, y) } },
   files |-> [r \in { SubSeq(x, Len(dir) + 1, Len(x)) : x \in { y \in DOMAIN f.files : IsPrefix(dir, y) } }
                |-> f.files[dir \o r]]]
RootView(f) == SubTree(f, install_root)

\* a fetch that returned bytes whose storage hash is not the one in the URI
Mismatch(e) == e.ok /\ is_ipfs_uri(e.uri) /\ generate_file_hash(e.bytes) # e.uri.hash
Mutation(e) == e.op \in {"mkdir", "touch", "write_manifest", "write_source", "write_lock", "copytree"}

\* ------------------------------------------------------------------ C1
\* C1: when the bytes fetched for a storage (IPFS) manifest URI do not hash to
\* the hash in the URI, the Package construction fails at that fetch, for the
\* top-level package and for a build dependency at any depth, and the command
\* ends there: no directory install_root/<alias> is created and
\* install_root/ethpm.lock keeps its entries.
C1_MismatchFailsInstall ==
  \A p \in Procs : \A i \in DOMAIN log[p] :
    (log[p][i].op = "fetch_manifest" /\ Mismatch(log[p][i])) =>
      /\ pc[p] = "done"
      /\ result[p] = "UriNotSupportedError.mismatch"
      /\ i = Len(log[p])
      /\ \A a \in AllNames :
           os_path_exists(fs, Append(install_root, a)) => os_path_exists(pre[p], Append(install_root, a))
      /\ LockAt(fs, RootLock) = LockAt(pre[p], RootLock)

\* a dependency of a dependency returned tampered bytes: the install of
\* "grand" failed while staging, at the fetch of the manifest of "owned"
C1_Witness ==
  \E p \in Procs :
    /\ pc[p] = "done" /\ phase[p] = "stage"
    /\ pkg[p].manifest.package_name = "grand"
    /\ result[p] = "UriNotSupportedError.mismatch"
    /\ Mismatch(log[p][Len(log[p])])
    /\ log[p][Len(log[p])].uri = IpfsUri(OwnedBytes)

\* ------------------------------------------------------------------ C2
\* C2: a source fetched through a storage URI whose bytes do not hash to the
\* hash in the URI makes the install fail (no install succeeds after such a
\* fetch).
C2_SourceMismatchFailsInstall ==
  \A p \in Procs : \A i \in DOMAIN log[p] :
    (log[p][i].op = "fetch_source" /\ Mismatch(log[p][i])) => result[p] # "ok"

\* ------------------------------------------------------------------ C3
\* C3: when install_package is called while something exists at
\* install_root/<alias>, the call ends in the installation-conflict error and
\* the filesystem (so the existing entry and install_root/ethpm.lock) is as
\* it was.
C3_ConflictChangesNothing ==
  [][\A p \in Procs :
       (pc[p] = "check" /\ pc'[p] # "check" /\ os_path_exists(fs, Dest(p))) =>
         (pc'[p] = "done" /\ result'[p] = "InstallError.conflict" /\ fs' = fs)]_vars

\* a second install of an alias that is already installed ended in the conflict
C3_Witness ==
  \E p \in Procs :
    /\ pc[p] = "done" /\ phase[p] = "check"
    /\ result[p] = "InstallError.conflict"
    /\ is_dir(fs, Dest(p))
    /\ pkg[p].alias \in DOMAIN LockAt(fs, RootLock)

\* ------------------------------------------------------------------ C4
\* C4: when staging fails, install_root is exactly as it was before the call.
C4_StagingFailureLeavesRoot ==
  \A p \in Procs :
    (pc[p] = "done" /\ phase[p] \in {"stage", "stage_lock"} /\ result[p] # "ok") =>
      RootView(fs) = RootView(pre[p])

\* ------------------------------------------------------------------ C5
\* C5: after a call of install_package, however it ended, install_root/<alias>
\* and the lockfile are as before the call, or install_root/<alias> is the
\* complete staged tree and the lockfile has the entry of <alias>.
C5_Untouched(p) ==
  /\ SubTree(fs, Dest(p)) = SubTree(pre[p], Dest(p))
  /\ SubTree(fs, RootLock) = SubTree(pre[p], RootLock)
C5_Installed(p) ==
  /\ SubTree(fs, Dest(p)) = SubTree(fs, scratch[p])
  /\ pkg[p].alias \in DOMAIN LockAt(fs, RootLock)
C5_NothingHalfInstalled ==
  \A p \in Procs :
    (pc[p] = "done" /\ phase[p] \in {"check", "stage", "stage_lock", "copy", "root_lock"}) =>
      (C5_Untouched(p) \/ C5_Installed(p))

\* ------------------------------------------------------------------ C6
\* C6: the write that ends update_ethpm_lock leaves a lockfile that maps the
\* alias to the package's entry and every other key of the lockfile as it was
\* to the entry it had; a lockfile that did not exist becomes the mapping with
\* that single key.
C6_Merged(before, after, alias, entry) ==
  /\ DOMAIN after = (DOMAIN before) \cup {alias}
  /\ after[alias] = entry
  /\ \A k \in (DOMAIN before) \ {alias} : after[k] = before[k]
C6_ReadMergeWrite ==
  [][\A p \in Procs :
       (pc[p] = "lock_write" /\ pc'[p] # "lock_write" /\ result'[p] \in {"", "ok"}) =>
         /\ is_file(fs', lock_path[p])
         /\ fs'.files[lock_path[p]].kind = "lock"
         /\ C6_Merged(LockAt(fs, lock_path[p]), LockAt(fs', lock_path[p]),
                      pkg[p].alias, generate_ethpm_lock(pkg[p]))]_vars

\* a second alias was merged into install_root/ethpm.lock
C6_Witness ==
  \E p \in Procs :
    /\ pc[p] = "done" /\ result[p] = "ok"
    /\ Cardinality(DOMAIN LockAt(pre[p], RootLock)) = 1
    /\ Cardinality(DOMAIN LockAt(fs, RootLock)) = 2
    /\ \A k \in DOMAIN LockAt(pre[p], RootLock) :
         LockAt(fs, RootLock)[k] = LockAt(pre[p], RootLock)[k]

\* ------------------------------------------------------------------ C7
\* C7: two installs of different aliases whose steps interleave both succeed,
\* and leave both alias directories and a lockfile with both entries.
C7_ConcurrentInstallsSafe ==
  (pc[1] = "done" /\ pc[2] = "done" /\ pkg[1].alias # pkg[2].alias) =>
    /\ result[1] = "ok" /\ result[2] = "ok"
    /\ is_dir(fs, Dest(1)) /\ is_dir(fs, Dest(2))
    /\ {pkg[1].alias, pkg[2].alias} \subseteq DOMAIN LockAt(fs, RootLock)

\* ------------------------------------------------------------------ C8
\* C8: a source whose target path lies outside <scratch>/src is rejected: no
\* source file is ever written outside the src directory it belongs to.
C8_EscapingSourceRejected ==
  \A p \in Procs : \A i \in DOMAIN log[p] :
    log[p][i].op = "write_source" => Inside(log[p][i].base, log[p][i].path)

\* ------------------------------------------------------------------ C9
\* C9: when the containment check of a path fails, nothing has been created,
\* touched or written at that path before the check.
C9_CheckBeforeMutation ==
  \A p \in Procs : \A i \in DOMAIN log[p] :
    (log[p][i].op = "check" /\ ~log[p][i].ok) =>
      \A j \in 1 .. (i - 1) : ~(Mutation(log[p][j]) /\ log[p][j].path = log[p][i].path)

\* ------------------------------------------------------------------ C10
\* C10: after a successful install of a package with a build dependency named
\* d, install_root/<alias>/ethpm_packages/d/manifest.json holds the child's raw
\* manifest and the lockfile in install_root/<alias>/ethpm_packages has the key d.
C10_DepDir(p) == Append(Dest(p), ETHPM_DIR_NAME)
C10_NestedLockKeyedByDepName ==
  \A p \in Procs :
    (pc[p] = "done" /\ result[p] = "ok" /\ pkg[p].manifest.has_deps) =>
      \A i \in DOMAIN pkg[p].manifest.deps :
        /\ is_file(fs, Join(C10_DepDir(p), pkg[p].manifest.deps[i].name) \o <<"manifest.json">>)
        /\ fs.files[Join(C10_DepDir(p), pkg[p].manifest.deps[i].name) \o <<"manifest.json">>]
             = Data(HonestBytes(pkg[p].manifest.deps[i].uri))
        /\ pkg[p].manifest.deps[i].name.segs[1] \in
             DOMAIN LockAt(fs, Append(C10_DepDir(p), LOCK_NAME))

\* ------------------------------------------------------------------ C11
\* C11: after a successful install of a manifest without build_dependencies,
\* the tree at install_root/<alias> is manifest.json, holding the raw manifest,
\* and one file under src/ for every key of `sources`: as many files as keys,
\* an inline value written as it is and a URI value as the fetched text.
C11_Target(p, s) == Join(Append(Dest(p), "src"), s.key)
C11_Contents(p, s) ==
  IF is_ipfs_uri(s.value.uri)
    THEN Data(to_text_rstrip(fetch_uri_contents(net[p], s.value.uri).bytes))
    ELSE Data(s.value.text)
C11_SrcFiles(p) == { x \in DOMAIN fs.files : IsPrefix(Append(Dest(p), "src"), x) }
C11_OneFilePerKey ==
  \A p \in Procs :
    (pc[p] = "done" /\ result[p] = "ok" /\ ~pkg[p].manifest.has_deps) =>
      /\ is_file(fs, Append(Dest(p), "manifest.json"))
      /\ fs.files[Append(Dest(p), "manifest.json")] = Data(pkg[p].raw_manifest)
      /\ { x \in DOMAIN fs.files : IsPrefix(Dest(p), x) } =
           {Append(Dest(p), "manifest.json")} \cup C11_SrcFiles(p)
      /\ Cardinality(C11_SrcFiles(p)) = Len(pkg[p].manifest.sources)
      /\ \A i \in DOMAIN pkg[p].manifest.sources :
           /\ is_file(fs, C11_Target(p, pkg[p].manifest.sources[i]))
           /\ fs.files[C11_Target(p, pkg[p].manifest.sources[i])] =
                C11_Contents(p, pkg[p].manifest.sources[i])

\* ------------------------------------------------------------------ C12
\* C12: a Package built from a registry URI has the URI the registry returned
\* as manifest_uri and the authority of the registry URI as registry_address;
\* built from any other URI it has that URI as manifest_uri and no
\* registry_address. target_uri is the URI the caller gave, and the lock entry
\* of an installed package reports these three values.
C12_Entry(p) == LockAt(fs, RootLock)[pkg[p].alias]
C12_Provenance ==
  \A p \in Procs :
    (pc[p] # "idle" /\ pkg[p].err = "") =>
      /\ pkg[p].target_uri = args[p].target_uri
      /\ args[p].target_uri.kind = "registry" =>
           /\ pkg[p].manifest_uri = RegistryLookup(args[p].target_uri)
           /\ pkg[p].registry_address = args[p].target_uri.auth
      /\ args[p].target_uri.kind # "registry" =>
           /\ pkg[p].manifest_uri = args[p].target_uri
           /\ pkg[p].registry_address = "None"
      /\ (pc[p] = "done" /\ result[p] = "ok") =>
           /\ pkg[p].alias \in DOMAIN LockAt(fs, RootLock)
           /\ C12_Entry(p).resolved_uri = pkg[p].manifest_uri
           /\ C12_Entry(p).target_uri = args[p].target_uri
           /\ C12_Entry(p).registry_address = pkg[p].registry_address

\* a package was installed from a URI of the second registry
C12_Witness ==
  \E p \in Procs :
    /\ pc[p] = "done" /\ result[p] = "ok"
    /\ args[p].target_uri = RegistryUri(OtherRegistry, "subst")
    /\ pkg[p].alias \in DOMAIN LockAt(fs, RootLock)
    /\ C12_Entry(p).registry_address = OtherRegistry
    /\ C12_Entry(p).resolved_uri = GithubUri(SubstBytes)
    /\ C12_Entry(p).target_uri = RegistryUri(OtherRegistry, "subst")

\* ------------------------------------------------------------------ C13
\* C13: the alias of a Package is the alias the caller gave when it is not
\* empty, and the package_name of the manifest when the caller gave None or
\* the empty string, for direct and registry targets; a successful install
\* makes the directory install_root/<that alias> and the lock key <that alias>.
C13_Expected(p) ==
  IF args[p].alias = NoAlias \/ args[p].alias = ""
    THEN pkg[p].manifest.package_name ELSE args[p].alias
C13_AliasRule ==
  \A p \in Procs :
    (pc[p] # "idle" /\ pkg[p].err = "") =>
      /\ pkg[p].alias = C13_Expected(p)
      /\ (pc[p] = "done" /\ result[p] = "ok") =>
           /\ is_dir(fs, Append(install_root, C13_Expected(p)))
           /\ ~is_dir(pre[p], Append(install_root, C13_Expected(p)))
           /\ C13_Expected(p) \in DOMAIN LockAt(fs, RootLock)
           /\ C13_Expected(p) \notin DOMAIN LockAt(pre[p], RootLock)
           /\ LockAt(fs, RootLock)[C13_Expected(p)].alias = C13_Expected(p)

\* a registry target installed with the empty alias, after an install with
\* an alias of the caller
C13_Witness ==
  \E p \in Procs :
    /\ pc[p] = "done" /\ result[p] = "ok"
    /\ args[p].alias = "" /\ args[p].target_uri.kind = "registry"
    /\ is_dir(fs, Append(install_root, "subst"))
    /\ DOMAIN LockAt(fs, RootLock) = {"a", "subst"}

\* ------------------------------------------------------------------ C14
\* C14: when the manifest URI (the target itself, or what the registry
\* returned for a registry target) is neither a blob URI nor a storage URI,
\* the construction of the Package fails with the unsupported-URI error, the
\* same for both ways of reaching the URI; nothing is fetched and the
\* command ends there.
C14_ManifestUri(p) ==
  IF args[p].target_uri.kind = "registry"
    THEN RegistryLookup(args[p].target_uri) ELSE args[p].target_uri
C14_UnsupportedFails ==
  \A p \in Procs :
    (pc[p] # "idle" /\ C14_ManifestUri(p).kind \notin {"ipfs", "github"}) =>
      /\ pc[p] = "done" /\ phase[p] = "construct"
      /\ result[p] = "UriNotSupportedError.unsupported"
      /\ pkg[p].err = "UriNotSupportedError.unsupported"
      /\ log[p] = <<>>
      /\ fs = pre[p]

\* a registry URI whose manifest URI is unsupported was refused
C14_Witness ==
  \E p \in Procs :
    /\ pc[p] = "done"
    /\ args[p].target_uri = RegistryUri(RegistryAddress, "legacy")
    /\ result[p] = "UriNotSupportedError.unsupported"
    /\ log[p] = <<>>

\* ------------------------------------------------------------------ C15
\* C15: two successful resolutions of the same manifest URI, by any two
\* Package constructions (of a target, of a registry target, of a build
\* dependency), give the same raw manifest and the same content hash, and the
\* content hash is the hash in the manifest URI.
C15_Deterministic ==
  /\ \A r1 \in resolutions : \A r2 \in resolutions :
       r1.manifest_uri = r2.manifest_uri =>
         /\ r1.raw_manifest = r2.raw_manifest
         /\ r1.resolved_content_hash = r2.resolved_content_hash
  /\ \A r \in resolutions : r.resolved_content_hash = r.manifest_uri.hash
  /\ \A p \in Procs : pkg[p].err = "" => Construction(pkg[p]) \in resolutions

\* the manifest of "owned" was resolved for an install of its own and, in a
\* later command, as the build dependency of "wallet"
C15_Witness ==
  \E p \in Procs :
    /\ pc[p] = "done" /\ result[p] = "ok"
    /\ pkg[p].manifest.package_name = "wallet"
    /\ "owned" \in DOMAIN LockAt(pre[p], RootLock)
    /\ \E i \in DOMAIN log[p] :
         /\ i > 1 /\ log[p][i].op = "fetch_manifest" /\ log[p][i].uri = IpfsUri(OwnedBytes)
    /\ \E r \in resolutions : r.manifest_uri = IpfsUri(OwnedBytes)

\* ------------------------------------------------------------------ C16
\* C16: a successful install of a package with build dependencies adds only
\* the top-level alias to install_root/ethpm.lock; the lockfile next to the
\* dependencies of each package of the tree has a record for each of those
\* dependencies; and these lockfiles were staged, so the promoted tree holds
\* them as the scratch directory does.
C16_ChildManifest(dep) == ManifestOf(to_text_rstrip(HonestBytes(dep.uri)).body)
C16_NestedLock(dir) == LockAt(fs, Append(Append(dir, ETHPM_DIR_NAME), LOCK_NAME))
C16_HasRecord(dir, dep) ==
  \E k \in DOMAIN C16_NestedLock(dir) : C16_NestedLock(dir)[k].target_uri = dep.uri
C16_HasRecords(dir, m) == \A i \in DOMAIN m.deps : C16_HasRecord(dir, m.deps[i])
C16_LockPerLevel ==
  \A p \in Procs :
    (pc[p] = "done" /\ result[p] = "ok" /\ pkg[p].manifest.has_deps) =>
      /\ DOMAIN LockAt(fs, RootLock) = (DOMAIN LockAt(pre[p], RootLock)) \cup {pkg[p].alias}
      /\ C16_HasRecords(Dest(p), pkg[p].manifest)
      /\ \A i \in DOMAIN pkg[p].manifest.deps :
           C16_HasRecords(Join(Append(Dest(p), ETHPM_DIR_NAME), pkg[p].manifest.deps[i].name),
                          C16_ChildManifest(pkg[p].manifest.deps[i]))
      /\ C16_NestedLock(Dest(p)) = C16_NestedLock(scratch[p])

\* ------------------------------------------------------------------ C17
\* C17: what an install writes before it copies the staged tree lies inside
\* its own scratch directory, so two installs never write the same file
\* while staging: they share only the install directory and its lockfile.
C17_StagingWrites(p) ==
  { log[p][i].path : i \in { j \in DOMAIN log[p] :
      /\ log[p][j].op \in {"mkdir", "touch", "write_manifest", "write_source", "write_lock"}
      /\ log[p][j].path # RootLock } }
C17_StagingIsPrivate ==
  \A p \in Procs :
    /\ \A x \in C17_StagingWrites(p) : Inside(scratch[p], x)
    /\ \A q \in Procs \ {p} : C17_StagingWrites(p) \cap C17_StagingWrites(q) = {}

\* ------------------------------------------------------------------ C18
\* C18: the existence check is the only guard between installs of one alias:
\* a command passes it exactly when nothing exists at install_root/<alias> at
\* that moment, whatever other commands are doing, and otherwise ends in the
\* installation-conflict error. So two installs of the same alias can both
\* pass it, stage, and try to copy into install_root/<alias>.
C18_OnlyExistenceCheck ==
  [][\A p \in Procs :
       (pc[p] = "check" /\ pc'[p] # "check") =>
         /\ ~os_path_exists(fs, Dest(p)) => pc'[p] = "stage"
         /\ os_path_exists(fs, Dest(p)) =>
              (pc'[p] = "done" /\ result'[p] = "InstallError.conflict")]_vars

\* two installs of the same alias both passed the check and both copied:
\* one made install_root/<alias>, the other found it there
C18_Witness ==
  \E p \in Procs : \E q \in Procs \ {p} :
    /\ pkg[p].alias = pkg[q].alias
    /\ pc[p] = "done" /\ pc[q] = "done"
    /\ phase[p] = "root_lock" /\ result[p] = "ok"
    /\ phase[q] = "copy" /\ result[q] = "FileExistsError"
    /\ \E i \in DOMAIN log[q] : log[q][i].op = "write_manifest"

\* ------------------------------------------------------------------ C19
\* C19: after every command of a sequence of installs into an install_root
\* that was empty, the keys of install_root/ethpm.lock are the directories
\* of install_root, every entry has its key as alias, and what was there
\* before the command (directories and lock entries) is as it was.
C19_AliasDirs(f) == { x[Len(install_root) + 1] : x \in { y \in f.dirs : LexParent(y) = install_root } }
C19_LockMatchesDirs ==
  \A p \in Procs :
    pc[p] = "done" =>
      /\ DOMAIN LockAt(fs, RootLock) = C19_AliasDirs(fs)
      /\ \A k \in DOMAIN LockAt(fs, RootLock) : LockAt(fs, RootLock)[k].alias = k
      /\ \A k \in DOMAIN LockAt(pre[p], RootLock) :
           /\ k \in DOMAIN LockAt(fs, RootLock)
           /\ LockAt(fs, RootLock)[k] = LockAt(pre[p], RootLock)[k]
           /\ SubTree(fs, Append(install_root, k)) = SubTree(pre[p], Append(install_root, k))

\* ------------------------------------------------------------------ C20
\* C20: a command that has started ends (it returns or raises), and a
\* successful install has constructed the Packages of the dependency tree
\* depth-first in manifest order: the target first, then for each build
\* dependency in turn its own subtree, every reference once, also when two
\* references name the same manifest URI.
RECURSIVE C20_DepthFirst(_)
RECURSIVE C20_Subtrees(_)
C20_Subtrees(deps) ==
  IF deps = <<>> THEN <<>> ELSE C20_DepthFirst(Head(deps).uri) \o C20_Subtrees(Tail(deps))
C20_DepthFirst(u) ==
  <<u>> \o C20_Subtrees(ManifestOf(to_text_rstrip(HonestBytes(u)).body).deps)
C20_Constructed(p) ==
  [i \in DOMAIN SelectSeq(log[p], LAMBDA e : e.op = "fetch_manifest") |->
     SelectSeq(log[p], LAMBDA e : e.op = "fetch_manifest")[i].uri]
C20_Order ==
  \A p \in Procs :
    (pc[p] = "done" /\ result[p] = "ok") => C20_Constructed(p) = C20_DepthFirst(pkg[p].manifest_uri)
\* staging has an outcome: it returns, or raises one of the exceptions
C20_Outcomes ==
  {"", "TransportError", "ValidationError", "UriNotSupportedError.mismatch",
   "UriNotSupportedError.unsupported", "InstallError.traversal", "FileExistsError",
   "FileNotFoundError", "NotADirectoryError", "IsADirectoryError", "JSONDecodeError"}
C20_StagingEnds ==
  \A p \in Procs :
    pc[p] = "stage" =>
      write_pkg_files(IoState(fs, log[p]), pkg[p], scratch[p], net[p]).err \in C20_Outcomes
C20_TerminatesDepthFirst ==
  /\ []C20_Order
  /\ []C20_StagingEnds
  /\ (pc[1] \notin {"idle", "done"}) ~> (pc[1] = "done")

\* "tree" was installed: its dependency "w" with the dependency of "w", then
\* its dependency "o", which names the manifest already staged below "w"
C20_Witness ==
  \E p \in Procs :
    /\ pc[p] = "done" /\ result[p] = "ok"
    /\ pkg[p].manifest.package_name = "tree"
    /\ C20_Constructed(p) =
         <<IpfsUri(TreeBytes), IpfsUri(WalletBytes), IpfsUri(OwnedBytes), IpfsUri(OwnedBytes)>>
    /\ is_file(fs, Dest(p) \o <<ETHPM_DIR_NAME, "w", ETHPM_DIR_NAME, "dep", "manifest.json">>)
    /\ is_file(fs, Dest(p) \o <<ETHPM_DIR_NAME, "o", "manifest.json">>)

====
